---- MODULE Spec2Model ----
(***************************************************************************)
(* Model of the component finder action (run() in src/main.ts and in its   *)
(* near-duplicate sibling).  A string is a sequence of atoms: one atom is  *)
(* a character ("a", ":", ",", " ", "/") or, in paths, a whole path        *)
(* segment ("component.yml").  The run is a state machine over pc.         *)
(***************************************************************************)
EXTENDS Naturals, Sequences, FiniteSets, TLC

VARIABLES
    variant,                     \* "main" (src/main.ts) or "part" (unnamed/part_000)
    inComponents,                \* INPUT_COMPONENTS, raw
    inDirs,                      \* INPUT_COMPONENT-SEARCH-DIRECTORIES, raw
    inRegex,                     \* INPUT_COMPONENT-FILE-NAME-REGEX, raw
    envWorkspace,                \* process.env.GITHUB_WORKSPACE
    fsContent,                   \* what each manifest slot of the file system holds
    pc,
    components,
    componentSearchDirectories,
    newComponents,
    vi,                          \* position of the validation loop
    componentMap,
    foundComponents,
    rootIdx,                     \* position of the loop over search directories
    stack,                       \* call stack of searchForComponent
    warnings,                    \* core.warning calls, in order
    errors,                      \* core.error calls, in order
    failed,                      \* core.setFailed message, NoFailure if none
    scannedRoots,                \* arguments of the top-level searchForComponent calls
    visited,                     \* every filePath stat'ed, in order
    readFiles                    \* every manifest read, in order

vars == <<variant, inComponents, inDirs, inRegex, envWorkspace, fsContent, pc,
          components, componentSearchDirectories, newComponents, vi,
          componentMap, foundComponents, rootIdx, stack, warnings, errors,
          failed, scannedRoots, visited, readFiles>>

inputs == <<variant, inComponents, inDirs, inRegex, envWorkspace, fsContent>>

MaxLen == 5

-----------------------------------------------------------------------------
(* Strings.                                                                *)

Undefined == [def |-> FALSE]
Defined(v) == [def |-> TRUE, val |-> v]
NoFailure == "none"

Whitespace == {" "}

\* String.prototype.split with a one-character separator.
RECURSIVE Split(_, _)
Split(s, sep) ==
    IF \E i \in 1..Len(s) : s[i] = sep
    THEN LET i == CHOOSE k \in 1..Len(s) :
                      s[k] = sep /\ \A j \in 1..(k - 1) : s[j] # sep
         IN  <<SubSeq(s, 1, i - 1)>> \o Split(SubSeq(s, i + 1, Len(s)), sep)
    ELSE <<s>>

\* String.prototype.trim.
RECURSIVE Trim(_)
Trim(s) ==
    IF s = <<>> THEN s
    ELSE IF s[1] \in Whitespace THEN Trim(Tail(s))
    ELSE IF s[Len(s)] \in Whitespace THEN Trim(SubSeq(s, 1, Len(s) - 1))
    ELSE s

\* Array.prototype.map(x => x.trim()).
MapTrim(list) == [i \in 1..Len(list) |-> Trim(list[i])]

\* core.getInput(name, {required}): throws when required and not supplied,
\* returns the value trimmed otherwise.
GetInputThrows(raw, required) == required /\ raw = <<>>
GetInput(raw) == Trim(raw)

-----------------------------------------------------------------------------
(* The validation pattern /^[a-zA-Z0-9_\-.]+(:[a-zA-Z0-9_\-.]+)?$/ as the   *)
(* automaton it compiles to: 0 start, 1 in name, 2 after colon, 3 in       *)
(* version, 4 dead.                                                        *)

NameChars == {"a", "b", "c", "e", "l", "s", "t", "1", "2", "_", "-", "."}

RegexStep(q, ch) ==
    CASE q = 0 -> IF ch \in NameChars THEN 1 ELSE 4
      [] q = 1 -> IF ch \in NameChars THEN 1 ELSE IF ch = ":" THEN 2 ELSE 4
      [] q = 2 -> IF ch \in NameChars THEN 3 ELSE 4
      [] q = 3 -> IF ch \in NameChars THEN 3 ELSE 4
      [] OTHER -> 4

RECURSIVE RegexRun(_, _)
RegexRun(q, s) == IF s = <<>> THEN q ELSE RegexRun(RegexStep(q, Head(s)), Tail(s))

validComponentRegexTest(s) == RegexRun(0, s) \in {1, 3}

Latest == <<"l", "a", "t", "e", "s", "t">>

\* Normalized without the default version.
NormalizedBare(component) ==
    LET parts == Split(component, ":")
    IN  IF Len(parts) > 1
        THEN parts[1] \o <<":">> \o parts[2]
        ELSE component

\* What the validation loop pushes for a token that passed the pattern.
Normalized(component) ==
    LET parts == Split(component, ":")
    IN  IF Len(parts) > 1
        THEN parts[1] \o <<":">> \o parts[2]
        ELSE component \o <<":">> \o Latest

\* neededComponent.split(':')[0]
NameOf(component) == Split(component, ":")[1]

-----------------------------------------------------------------------------
(* Paths and the file system.                                              *)

Cwd == <<"/", "w">>                       \* process.cwd()

\* path.isAbsolute
IsAbsolute(p) == p # <<>> /\ p[1] = "/"

\* path.resolve(base, p), base absolute.
Resolve(base, p) ==
    IF IsAbsolute(p) THEN p
    ELSE IF p = <<>> THEN base
    ELSE base \o <<"/">> \o p

\* path.join(dir, file)
PathJoin(dir, file) == IF dir = <<>> THEN <<file>> ELSE dir \o <<"/", file>>

\* The directories of the file system and what fs.readdirSync lists in each.
Dirs == { <<"/", "w">>, <<"/", "w", "/", "a">>, <<"/", "r">>, <<"/", "r", "/", "a">> }

Listing(d) ==
    CASE d = <<"/", "w">>           -> <<"a", "component.yml", ".component.yml">>
      [] d = <<"/", "w", "/", "a">> -> <<"README", "component.yaml", ".component.yaml">>
      [] d = <<"/", "r">>           -> <<"component.yml", ".component.yml", "a">>
      [] d = <<"/", "r", "/", "a">> -> <<"component.yml", ".component.yml">>
      [] OTHER                      -> <<>>

\* ExistsSync taking every path to exist.
ExistsSyncAlways(p) == TRUE

\* fs.existsSync: a relative path is looked up from the working directory.
ExistsSync(p) == p # <<>> /\ Resolve(Cwd, p) \in Dirs

\* fs.statSync(p).isDirectory()
IsDirectory(p) == Resolve(Cwd, p) \in Dirs

\* The manifest slot a file belongs to: the files of one directory share one,
\* and so do those of /r and /r/a.
Slots == {"w", "wa", "ra"}
SlotOf(p) ==
    LET d == SubSeq(Resolve(Cwd, p), 1, Len(Resolve(Cwd, p)) - 2)
    IN  CASE d = <<"/", "w">>           -> "w"
          [] d = <<"/", "w", "/", "a">> -> "wa"
          [] OTHER                      -> "ra"

\* fs.readFileSync(p): the kind of content; yaml.parse of that content.
ContentKinds == {"a", "b", "nofield", "malformed", "empty"}
ReadFileSync(p) == fsContent[SlotOf(p)]

\* yaml.parse throws on malformed text; it returns null for an empty document,
\* and reading .component of null throws a TypeError.
ParseThrows(kind) == kind \in {"malformed", "empty"}
ParseError(kind) == IF kind = "malformed" THEN "YAMLParseError" ELSE "TypeError"

\* yaml.parse(content).component
DeclaredComponent(kind) == IF kind \in {"a", "b"} THEN Defined(<<kind>>) ELSE Undefined

\* The source of the manifest file name pattern and RegExp.prototype.test on
\* a base name.  A caller-supplied pattern is a literal here.
DefaultSourceMain == <<"^component\\.ya?ml$">>
DefaultSourcePart == <<"^\\.component\\.ya?ml$">>

RegExpTest(source, file) ==
    CASE source = DefaultSourceMain -> file \in {"component.yml", "component.yaml"}
      [] source = DefaultSourcePart -> file \in {".component.yml", ".component.yaml"}
      [] OTHER                      -> <<file>> = source

componentFileNameRegex ==
    IF variant = "main"
    THEN IF GetInput(inRegex) # <<>> THEN GetInput(inRegex) ELSE DefaultSourceMain
    ELSE DefaultSourcePart

\* The list the scan and the report iterate over.
Needed == IF variant = "main" THEN components ELSE newComponents

\* Array.prototype.includes
Includes(list, x) == \E i \in 1..Len(list) : list[i] = x

\* list.map(c => c.split(':')[0])
Names(list) == [i \in 1..Len(list) |-> NameOf(list[i])]

-----------------------------------------------------------------------------
(* Inputs.                                                                 *)

ComponentInputs ==
    { <<>>,
      <<"a">>,
      <<"a", ":", "1">>,
      <<"a", ",", " ", "b", ":", "2">>,
      <<"!">>,
      <<"a", ",", "!">>,
      <<"b">>,
      <<"a", ",", "a", ":", "1">> }

DirInputs ==
    { <<>>,
      <<"/", "w">>,
      <<"/", "m", ",", "/", "w">>,
      <<"a">>,
      <<"/", "r", ",", " ", "/", "w">>,
      <<"/", "w", ",", "/", "r">> }

RegexInputs == { <<>>, <<"README">> }

WorkspaceValues == { Undefined, Defined(<<"/", "w">>), Defined(<<"/", "r">>) }

FsContents == [Slots -> ContentKinds]

Start ==
    /\ pc = "input"
    /\ components = <<>>
    /\ componentSearchDirectories = <<>>
    /\ newComponents = <<>>
    /\ vi = 1
    /\ componentMap = <<>>
    /\ foundComponents = <<>>
    /\ rootIdx = 1
    /\ stack = <<>>
    /\ warnings = <<>>
    /\ errors = <<>>
    /\ failed = NoFailure
    /\ scannedRoots = <<>>
    /\ visited = <<>>
    /\ readFiles = <<>>

Init ==
    /\ variant \in {"main", "part"}
    /\ inComponents \in ComponentInputs
    /\ inDirs \in DirInputs
    /\ inRegex \in IF variant = "main" THEN RegexInputs ELSE { <<>> }
    /\ envWorkspace \in IF variant = "part" THEN WorkspaceValues ELSE { Undefined }
    /\ fsContent \in FsContents
    /\ Start

\* Every raw `components` text up to MaxLen atoms, over one fixed file system.
NormAlphabet == {"a", ":", ",", " ", "!"}

InitNorm ==
    /\ variant \in {"main", "part"}
    /\ inComponents \in UNION { [1..n -> NormAlphabet] : n \in 0..MaxLen }
    /\ inDirs = <<"/", "m", ",", "/", "w">>
    /\ inRegex = <<>>
    /\ envWorkspace = Defined(<<"/", "w">>)
    /\ fsContent = [s \in Slots |-> "a"]
    /\ Start

-----------------------------------------------------------------------------
(* run(), step by step.                                                    *)

\* Fail without the failure signal.
FailSilently(msg) ==
    /\ failed' = NoFailure
    /\ pc' = "done"

\* The catch block: the run ends with core.setFailed(error.message).
Fail(msg) ==
    /\ failed' = msg
    /\ pc' = "done"

\* Relative search directories are resolved against the repository path
\* (the sibling variant only).
ResolveDirectories(list, repositoryPath) ==
    [i \in 1..Len(list) |->
        IF IsAbsolute(list[i]) THEN list[i] ELSE Resolve(repositoryPath, list[i])]

\* Reading and splitting the inputs, up to the validation loop.
ReadInputs ==
    /\ pc = "input"
    /\ IF GetInputThrows(inComponents, TRUE)
       THEN /\ Fail("Input required and not supplied: components")
            /\ UNCHANGED <<components, componentSearchDirectories>>
       ELSE LET comps == MapTrim(Split(GetInput(inComponents), ","))
                dirs  == MapTrim(Split(GetInput(inDirs), ","))
            IN  /\ components' = comps
                /\ IF Len(comps) = 0
                   THEN /\ Fail("No components provided to search for.")
                        /\ componentSearchDirectories' = dirs
                   ELSE IF variant = "part" /\ envWorkspace = Undefined
                   THEN /\ Fail("No repository path found.")
                        /\ componentSearchDirectories' = dirs
                   ELSE /\ componentSearchDirectories' =
                              IF variant = "part"
                              THEN ResolveDirectories(dirs, envWorkspace.val)
                              ELSE dirs
                        /\ pc' = "validate"
                        /\ UNCHANGED failed
    /\ UNCHANGED <<inputs, newComponents, vi, componentMap, foundComponents,
                   rootIdx, stack, warnings, errors, scannedRoots, visited,
                   readFiles>>

\* One iteration of the validation loop.
ValidateComponent ==
    /\ pc = "validate"
    /\ vi <= Len(components)
    /\ LET component == components[vi]
       IN  IF ~validComponentRegexTest(component)
           THEN /\ errors' = Append(errors, component)
                /\ UNCHANGED newComponents
           ELSE /\ newComponents' = Append(newComponents, Normalized(component))
                /\ UNCHANGED errors
    /\ vi' = vi + 1
    /\ UNCHANGED <<inputs, pc, components, componentSearchDirectories,
                   componentMap, foundComponents, rootIdx, stack, warnings,
                   failed, scannedRoots, visited, readFiles>>

\* NoValidComponents that never holds.
NoValidComponentsNever(list) == Len(list) < 0

\* The check that ends the run when no token passed validation.
NoValidComponents(list) == Len(list) = 0

\* The search directories the scan loops over.
SearchRoots(dirs) == IF Len(dirs) = 0 THEN <<Cwd>> ELSE dirs

\* After the validation loop: the empty check and the default search root.
ValidateDone ==
    /\ pc = "validate"
    /\ vi > Len(components)
    /\ IF NoValidComponents(newComponents)
       THEN /\ Fail("No valid components provided to search for.")
            /\ UNCHANGED componentSearchDirectories
       ELSE /\ componentSearchDirectories' = SearchRoots(componentSearchDirectories)
            /\ pc' = "scan"
            /\ UNCHANGED failed
    /\ UNCHANGED <<inputs, components, newComponents, vi, componentMap,
                   foundComponents, rootIdx, stack, warnings, errors,
                   scannedRoots, visited, readFiles>>

Frame(dir) == [dir |-> dir, files |-> Listing(Resolve(Cwd, dir)), i |-> 1]

\* searchForComponent(searchDir) for the next search directory.
ScanRoot ==
    /\ pc = "scan"
    /\ stack = <<>>
    /\ rootIdx <= Len(componentSearchDirectories)
    /\ LET dir == componentSearchDirectories[rootIdx]
       IN  /\ scannedRoots' = Append(scannedRoots, dir)
           /\ IF ~ExistsSync(dir)
              THEN /\ warnings' = Append(warnings, [kind |-> "nodir", arg |-> dir])
                   /\ UNCHANGED stack
              ELSE /\ stack' = <<Frame(dir)>>
                   /\ UNCHANGED warnings
    /\ rootIdx' = rootIdx + 1
    /\ UNCHANGED <<inputs, pc, components, componentSearchDirectories,
                   newComponents, vi, componentMap, foundComponents, errors,
                   failed, visited, readFiles>>

\* The requested entries whose name is the declared component.
Matching(list, component) ==
    SelectSeq(list, LAMBDA nc : component.def /\ NameOf(nc) = component.val)

\* Record keeping the path a key already has.
RecordKeepFirst(map, keys, path) ==
    LET ks == {keys[j] : j \in 1..Len(keys)}
    IN  [k \in DOMAIN map \cup ks |-> IF k \in DOMAIN map THEN map[k] ELSE path]

\* componentMap after the loop over the requested entries at one manifest.
Record(map, keys, path) ==
    LET ks == {keys[j] : j \in 1..Len(keys)}
    IN  [k \in DOMAIN map \cup ks |-> IF k \in ks THEN path ELSE map[k]]

\* One iteration of the loop over a directory's entries.
VisitEntry ==
    /\ pc = "scan"
    /\ stack # <<>>
    /\ LET top      == stack[Len(stack)]
           rest     == SubSeq(stack, 1, Len(stack) - 1)
           file     == top.files[top.i]
           filePath == PathJoin(top.dir, file)
           next     == Append(rest, [top EXCEPT !.i = top.i + 1])
       IN  /\ top.i <= Len(top.files)
           /\ visited' = Append(visited, filePath)
           /\ IF IsDirectory(filePath)
              THEN /\ stack' = Append(next, Frame(filePath))
                   /\ UNCHANGED <<componentMap, foundComponents, readFiles,
                                  failed, pc>>
              ELSE IF RegExpTest(componentFileNameRegex, file)
              THEN LET kind == ReadFileSync(filePath)
                       keys == Matching(Needed, DeclaredComponent(kind))
                   IN  /\ readFiles' = Append(readFiles, filePath)
                       /\ IF ParseThrows(kind)
                          THEN /\ Fail(ParseError(kind))
                               /\ stack' = <<>>
                               /\ UNCHANGED <<componentMap, foundComponents>>
                          ELSE /\ componentMap' =
                                     Record(componentMap, keys, Resolve(Cwd, filePath))
                               /\ foundComponents' = foundComponents \o
                                     [j \in 1..Len(keys) |-> DeclaredComponent(kind).val]
                               /\ stack' = next
                               /\ UNCHANGED <<failed, pc>>
              ELSE /\ stack' = next
                   /\ UNCHANGED <<componentMap, foundComponents, readFiles,
                                  failed, pc>>
    /\ UNCHANGED <<inputs, components, componentSearchDirectories,
                   newComponents, vi, rootIdx, warnings, errors, scannedRoots>>

\* The entries of a directory are exhausted: searchForComponent returns.
ReturnFromDir ==
    /\ pc = "scan"
    /\ stack # <<>>
    /\ stack[Len(stack)].i > Len(stack[Len(stack)].files)
    /\ stack' = SubSeq(stack, 1, Len(stack) - 1)
    /\ UNCHANGED <<inputs, pc, components, componentSearchDirectories,
                   newComponents, vi, componentMap, foundComponents, rootIdx,
                   warnings, errors, failed, scannedRoots, visited, readFiles>>

\* The names the final loop warns about.
NotFound(list) ==
    SelectSeq(Names(list), LAMBDA name : ~Includes(list, name))

\* The final loop: a warning for each component taken as not found.
Report ==
    /\ pc = "scan"
    /\ stack = <<>>
    /\ rootIdx > Len(componentSearchDirectories)
    /\ warnings' = warnings \o
           [i \in 1..Len(NotFound(Needed)) |->
               [kind |-> "notfound", arg |-> NotFound(Needed)[i]]]
    /\ pc' = "done"
    /\ UNCHANGED <<inputs, components, componentSearchDirectories,
                   newComponents, vi, componentMap, foundComponents, rootIdx,
                   stack, errors, failed, scannedRoots, visited, readFiles>>

Next ==
    \/ ReadInputs
    \/ ValidateComponent
    \/ ValidateDone
    \/ ScanRoot
    \/ VisitEntry
    \/ ReturnFromDir
    \/ Report

Spec == Init /\ [][Next]_vars

SpecNorm == InitNorm /\ [][Next]_vars

-----------------------------------------------------------------------------
(* What the properties are stated with.                                    *)

\* A token of the form name or name:version, both parts non-empty and made
\* of the characters of the pattern's class.
ValidToken(t) ==
    \E n \in 1..Len(t) :
        /\ \A j \in 1..n : t[j] \in NameChars
        /\ \/ n = Len(t)
           \/ /\ n + 1 < Len(t)
              /\ t[n + 1] = ":"
              /\ \A j \in (n + 2)..Len(t) : t[j] \in NameChars

HasColon(t) == \E i \in 1..Len(t) : t[i] = ":"

\* The canonical "name:version" string of a valid token.
Canonical(t) == IF HasColon(t) THEN t ELSE t \o <<":">> \o Latest

\* The name part of a valid token: what precedes its colon.
TokenName(t) ==
    IF HasColon(t)
    THEN SubSeq(t, 1, (CHOOSE i \in 1..Len(t) : t[i] = ":") - 1)
    ELSE t

Expected(tokens) ==
    [i \in 1..Len(SelectSeq(tokens, ValidToken)) |->
        Canonical(SelectSeq(tokens, ValidToken)[i])]

\* Every file under a directory, depth-first, entries in listing order.
RECURSIVE FilesFrom(_, _)
FilesFrom(dir, i) ==
    IF i > Len(Listing(Resolve(Cwd, dir))) THEN <<>>
    ELSE LET p == PathJoin(dir, Listing(Resolve(Cwd, dir))[i])
         IN  (IF Resolve(Cwd, p) \in Dirs THEN FilesFrom(p, 1) ELSE <<p>>)
             \o FilesFrom(dir, i + 1)

RECURSIVE FilesOfRoots(_)
FilesOfRoots(roots) ==
    IF roots = <<>> THEN <<>>
    ELSE (IF roots[1] # <<>> /\ Resolve(Cwd, roots[1]) \in Dirs
          THEN FilesFrom(roots[1], 1) ELSE <<>>)
         \o FilesOfRoots(Tail(roots))

BaseName(p) == p[Len(p)]

\* The manifests under the existing search roots, in traversal order.
Manifests ==
    SelectSeq(FilesOfRoots(componentSearchDirectories),
              LAMBDA p : RegExpTest(componentFileNameRegex, BaseName(p)))

Declares(p, name) == fsContent[SlotOf(p)] \in {"a", "b"} /\ <<fsContent[SlotOf(p)]>> = name

ManifestsDeclaring(name) == SelectSeq(Manifests, LAMBDA p : Declares(p, name))

\* The requested specifiers: the tokens that pass validation.
Requested == SelectSeq(components, ValidToken)

Warned(name) ==
    \E i \in 1..Len(warnings) : warnings[i] = [kind |-> "notfound", arg |-> name]

Completed == pc = "done" /\ failed = NoFailure

IsPrefix(s, t) == Len(s) <= Len(t) /\ s = SubSeq(t, 1, Len(s))

-----------------------------------------------------------------------------
(* C1: the list the validation loop builds is the trimmed tokens of the    *)
(* raw text, in order, without the tokens that fail the pattern, each      *)
(* written name:version with "latest" for a missing version; duplicates    *)
(* stay and no entry is empty.                                             *)
C1_Normalization ==
    /\ pc \in {"validate", "scan"} =>
          /\ components = MapTrim(Split(inComponents, ","))
          /\ newComponents = Expected(SubSeq(components, 1, vi - 1))
          /\ \A i \in 1..Len(newComponents) : newComponents[i] # <<>>
    /\ pc = "scan" => newComponents = Expected(components)

C1_Witness ==
    /\ pc = "scan"
    /\ Len(components) = 3
    /\ ~ValidToken(components[2])
    /\ Len(newComponents) = 2
    /\ newComponents[1] = newComponents[2]
    /\ newComponents[1] = <<"a", ":">> \o Latest


(* C2: after a scan without a fatal error, every requested token whose     *)
(* name a manifest under an existing search root declares has an entry in  *)
(* the match mapping under its canonical name:version string, and the      *)
(* entry is the absolute path of a manifest declaring that name.           *)
C2_CanonicalKey ==
    Completed =>
        \A i \in 1..Len(Requested) :
            LET t == Requested[i]
                ms == ManifestsDeclaring(TokenName(t))
            IN  ms # <<>> =>
                    /\ Canonical(t) \in DOMAIN componentMap
                    /\ \E j \in 1..Len(ms) :
                           componentMap[Canonical(t)] = Resolve(Cwd, ms[j])

(* C3: when no token survives validation the run ends failed and nothing   *)
(* is scanned: no search root is visited, no file is read and the match    *)
(* mapping stays empty.                                                    *)
C3_EmptyRequestSet ==
    /\ (pc \notin {"input", "validate"} /\ newComponents = <<>>) =>
          /\ pc = "done"
          /\ failed # NoFailure
          /\ scannedRoots = <<>>
          /\ visited = <<>>
          /\ readFiles = <<>>
          /\ componentMap = <<>>
    /\ (pc = "done" /\ components # <<>> /\ vi > Len(components)
           /\ Expected(components) = <<>>) =>
          failed = "No valid components provided to search for."

C3_Witness ==
    /\ pc = "done"
    /\ components = << <<"!">> >>
    /\ vi = 2
    /\ failed = "No valid components provided to search for."

(* C4: a completed run warns about every requested specifier whose name no *)
(* manifest under the search roots declares, and the match mapping has no  *)
(* entry for it.                                                           *)
C4_NotFoundWarned ==
    Completed =>
        \A i \in 1..Len(Requested) :
            LET t == Requested[i]
            IN  ManifestsDeclaring(TokenName(t)) = <<>> =>
                    /\ Warned(TokenName(t))
                    /\ Canonical(t) \notin DOMAIN componentMap

(* C5: the run emits no not-found warning for a component that has an      *)
(* entry in the match mapping.                                             *)
C5_NoWarningWhenFound ==
    pc = "done" =>
        \A k \in DOMAIN componentMap : ~Warned(NameOf(k))

(* C6 as stated: a manifest whose content is malformed or has no component *)
(* field ends the run failed, and nothing is visited after it.             *)
C6_BadManifestFatal ==
    \A i \in 1..Len(readFiles) :
        fsContent[SlotOf(readFiles[i])] \in {"malformed", "empty", "nofield"} =>
            /\ pc = "done"
            /\ failed # NoFailure
            /\ i = Len(readFiles)
            /\ visited[Len(visited)] = readFiles[i]

(* C6 amended: a manifest whose content is malformed, or is an empty        *)
(* document, ends the run failed and nothing is visited after it; a        *)
(* manifest that parses to a mapping without a component field raises no   *)
(* error, matches no request, and the scan goes on.                        *)
C6_UnparsableManifestFatal ==
    /\ \A i \in 1..Len(readFiles) :
           fsContent[SlotOf(readFiles[i])] \in {"malformed", "empty"} =>
               /\ pc = "done"
               /\ failed \in {"YAMLParseError", "TypeError"}
               /\ i = Len(readFiles)
               /\ visited[Len(visited)] = readFiles[i]
    /\ failed \in {"YAMLParseError", "TypeError"} =>
           /\ readFiles # <<>>
           /\ fsContent[SlotOf(readFiles[Len(readFiles)])] \in {"malformed", "empty"}
    /\ Completed =>
           /\ readFiles = Manifests
           /\ \A k \in DOMAIN componentMap :
                  fsContent[SlotOf(componentMap[k])] \in {"a", "b"}

C6_Witness ==
    /\ pc = "done"
    /\ failed = "TypeError"
    /\ Len(readFiles) = 2
    /\ Len(readFiles) < Len(Manifests)
    /\ fsContent[SlotOf(readFiles[1])] = "nofield"
    /\ Len(scannedRoots) < Len(componentSearchDirectories)

(* C7: with no search directories supplied the only root scanned is the    *)
(* current working directory.                                              *)
C7_DefaultsToCwd ==
    (pc = "done" /\ failed = NoFailure /\ Trim(inDirs) = <<>>) =>
        scannedRoots = <<Cwd>>

(* C8: the path recorded for a matched specifier is that of the manifest   *)
(* visited last, in traversal order (roots in order, depth-first, entries  *)
(* in listing order), among those declaring its name.                      *)
C8_LastWriteWins ==
    pc \in {"scan", "done"} =>
        /\ IsPrefix(readFiles, Manifests)
        /\ Completed => readFiles = Manifests
        /\ \A k \in DOMAIN componentMap :
               LET ms == SelectSeq(readFiles, LAMBDA p : Declares(p, NameOf(k)))
               IN  /\ ms # <<>>
                   /\ componentMap[k] = Resolve(Cwd, ms[Len(ms)])

C8_Witness ==
    /\ Completed
    /\ \E k \in DOMAIN componentMap :
           LET ms == ManifestsDeclaring(NameOf(k))
           IN  /\ Len(ms) >= 3
               /\ ms[1] # ms[Len(ms)]
               /\ componentMap[k] = Resolve(Cwd, ms[Len(ms)])

(* C9: a search root that does not exist gets a warning and is skipped:    *)
(* the run does not fail over it, the roots after it are scanned and the   *)
(* matches under them are recorded.                                        *)
C9_MissingRootSkipped ==
    LET roots == componentSearchDirectories
    IN  /\ \A i \in 1..Len(scannedRoots) :
               (scannedRoots[i] = <<>> \/ Resolve(Cwd, scannedRoots[i]) \notin Dirs) =>
                   \E j \in 1..Len(warnings) :
                       warnings[j] = [kind |-> "nodir", arg |-> scannedRoots[i]]
        /\ pc \in {"scan", "done"} => IsPrefix(scannedRoots, roots)
        /\ (pc = "done" /\ newComponents # <<>>
               /\ \A j \in 1..Len(Manifests) :
                      fsContent[SlotOf(Manifests[j])] \notin {"malformed", "empty"}) =>
              /\ failed = NoFailure
              /\ scannedRoots = roots
              /\ \A j \in 1..Len(FilesOfRoots(roots)) :
                     \E v \in 1..Len(visited) : visited[v] = FilesOfRoots(roots)[j]
              /\ \A n \in 1..Len(Needed) :
                     ManifestsDeclaring(NameOf(Needed[n])) # <<>> =>
                         Needed[n] \in DOMAIN componentMap

C9_Witness ==
    /\ Completed
    /\ Len(scannedRoots) = 2
    /\ Resolve(Cwd, scannedRoots[1]) \notin Dirs
    /\ Resolve(Cwd, scannedRoots[2]) \in Dirs
    /\ warnings[1] = [kind |-> "nodir", arg |-> scannedRoots[1]]
    /\ componentMap # <<>>

(* C10: every search root passed to the recursive scan is an absolute      *)
(* path.                                                                   *)
C10_RootsAbsolute ==
    \A i \in 1..Len(scannedRoots) : IsAbsolute(scannedRoots[i])

====
